---- MODULE Spec2Model ----
(***************************************************************************)
(* Model of indexable_str (src/src/lib.rs): IndexableStr, a read-only      *)
(* view over a UTF-8 string slice that is addressed by char index.         *)
(*                                                                         *)
(* A &str is modelled as the sequence of its bytes (0..255).  A char is    *)
(* its code point.  A Vec<CharOffset> is a sequence of records             *)
(* [chr, offset]; Rust indices are 0-based, TLA+ sequences 1-based.        *)
(* A panic is modelled as a result record whose kind names the panic.      *)
(***************************************************************************)
EXTENDS Integers, Sequences, FiniteSets

\* Longest text (in chars) handed to IndexableStr::new.
MaxLen == 3

\* Code points the texts are drawn from: both sides of every UTF-8 width
\* boundary (0x7F|0x80, 0x7FF|0x800, 0xFFFF|0x10000) and the largest scalar.
CodePoints == {48, 127, 128, 2047, 2048, 65535, 65536, 1114111}

\* usize arguments tried by the callers: every valid index and two past it.
Indices == 0 .. (MaxLen + 2)

VARIABLES
    text,          \* the chars of the caller's string, as the caller wrote them
    str,           \* IndexableStr.str: the bytes of the borrowed &str
    str_length,    \* IndexableStr.str_length
    chars_vec,     \* IndexableStr.chars_vec
    chars_length,  \* IndexableStr.chars_length
    constructed,   \* FALSE until IndexableStr::new has returned
    op,            \* the last operation called on the object
    args,          \* its arguments
    result         \* what it returned, or the panic it raised

vars == <<text, str, str_length, chars_vec, chars_length, constructed, op, args, result>>

----------------------------------------------------------------------------
\* Results

Ok(v) == [kind |-> "ok", val |-> v]

Panic(k) == [kind |-> k, val |-> <<>>]

NoResult == [kind |-> "none", val |-> <<>>]

----------------------------------------------------------------------------
\* The host string type: UTF-8 encoding, char iteration, byte slicing

\* char::encode_utf8: the bytes of one code point.
EncodeChar(cp) ==
    IF cp <= 127 THEN <<cp>>
    ELSE IF cp <= 2047 THEN <<192 + (cp \div 64), 128 + (cp % 64)>>
    ELSE IF cp <= 65535 THEN
        <<224 + (cp \div 4096), 128 + ((cp \div 64) % 64), 128 + (cp % 64)>>
    ELSE
        <<240 + (cp \div 262144), 128 + ((cp \div 4096) % 64),
          128 + ((cp \div 64) % 64), 128 + (cp % 64)>>

\* The bytes of a string literal made of the chars cps.
RECURSIVE EncodeStr(_)
EncodeStr(cps) ==
    IF cps = <<>> THEN <<>> ELSE EncodeChar(Head(cps)) \o EncodeStr(Tail(cps))

\* Number of bytes of the encoded char that starts with lead byte b.
LeadWidth(b) ==
    IF b < 128 THEN 1 ELSE IF b < 224 THEN 2 ELSE IF b < 240 THEN 3 ELSE 4

\* The code point encoded by the first LeadWidth bytes of bytes.
DecodeFirst(bytes) ==
    LET b == bytes[1]
        w == LeadWidth(b)
    IN  IF w = 1 THEN b
        ELSE IF w = 2 THEN (b - 192) * 64 + (bytes[2] - 128)
        ELSE IF w = 3 THEN
            (b - 224) * 4096 + (bytes[2] - 128) * 64 + (bytes[3] - 128)
        ELSE (b - 240) * 262144 + (bytes[2] - 128) * 4096
             + (bytes[3] - 128) * 64 + (bytes[4] - 128)

\* str::chars(): the chars of a valid UTF-8 byte sequence, in order.
RECURSIVE Chars(_)
Chars(bytes) ==
    IF bytes = <<>> THEN <<>>
    ELSE LET w == LeadWidth(bytes[1])
         IN  <<DecodeFirst(bytes)>> \o Chars(SubSeq(bytes, w + 1, Len(bytes)))

\* str::is_char_boundary: 0, len, or the position of a non-continuation byte.
IsCharBoundary(bytes, i) ==
    \/ i = 0
    \/ i = Len(bytes)
    \/ /\ i < Len(bytes)
       /\ ~(bytes[i + 1] >= 128 /\ bytes[i + 1] < 192)

\* &s[a..b] on a str: the bytes a .. b-1, or a panic.
StrSlice(bytes, a, b) ==
    IF a > b \/ b > Len(bytes) \/ ~IsCharBoundary(bytes, a) \/ ~IsCharBoundary(bytes, b)
    THEN Panic("StrSliceError")
    ELSE Ok(SubSeq(bytes, a + 1, b))

----------------------------------------------------------------------------
\* IndexableStr::new

\* CharWidth with the two-byte boundary written as < 0x7FF.
CharWidth_StrictBoundary(code_point) ==
    IF code_point <= 127 THEN 1
    ELSE IF code_point < 2047 THEN 2
    ELSE IF code_point <= 65535 THEN 3
    ELSE IF code_point <= 1114111 THEN 4
    ELSE 0

\* The closure of lines 110-128: the encoded width of a code point.
CharWidth(code_point) ==
    IF code_point <= 127 THEN 1
    ELSE IF code_point <= 2047 THEN 2
    ELSE IF code_point <= 65535 THEN 3
    ELSE IF code_point <= 1114111 THEN 4
    ELSE 0

\* The map of lines 102-131 over the chars cs, current_offset starting at off.
RECURSIVE BuildCharsVec(_, _)
BuildCharsVec(cs, current_offset) ==
    IF cs = <<>> THEN <<>>
    ELSE <<[chr |-> Head(cs), offset |-> current_offset]>>
         \o BuildCharsVec(Tail(cs), current_offset + CharWidth(Head(cs)))

\* New with chars_length taken from str.len(), the byte length.
New_ByteLength ==
    /\ ~constructed
    /\ chars_vec' = BuildCharsVec(Chars(str), 0)
    /\ chars_length' = Len(str)
    /\ str_length' = Len(str)
    /\ constructed' = TRUE
    /\ op' = "new"
    /\ args' = <<>>
    /\ result' = NoResult
    /\ UNCHANGED <<text, str>>

New ==
    /\ ~constructed
    /\ chars_vec' = BuildCharsVec(Chars(str), 0)
    /\ chars_length' = Len(chars_vec')
    /\ str_length' = Len(str)
    /\ constructed' = TRUE
    /\ op' = "new"
    /\ args' = <<>>
    /\ result' = NoResult
    /\ UNCHANGED <<text, str>>

----------------------------------------------------------------------------
\* Accessors

\* Every accessor takes &self: the object is left as it is.
Call(name, a, r) ==
    /\ constructed
    /\ op' = name
    /\ args' = a
    /\ result' = r
    /\ UNCHANGED <<text, str, str_length, chars_vec, chars_length, constructed>>

as_str == Ok(str)

AsStr == Call("as_str", <<>>, as_str)

len == Ok(chars_length)

LenOp == Call("len", <<>>, len)

fmt == Ok(str)

Display == Call("to_string", <<>>, fmt)

\* index() that takes index as a byte position: the char whose bytes hold it.
IndexUsize_ByteOffset(index) ==
    IF index >= str_length THEN Panic("OutOfRange")
    ELSE Ok(chars_vec[CHOOSE i \in 1 .. Len(chars_vec) :
                        /\ chars_vec[i].offset <= index
                        /\ \A j \in 1 .. Len(chars_vec) :
                               chars_vec[j].offset <= index
                                   => chars_vec[j].offset <= chars_vec[i].offset].chr)

\* index() written with get(index) and a default of '\0' instead of a panic.
IndexUsize_Default(index) ==
    IF index >= Len(chars_vec) THEN Ok(0)
    ELSE Ok(chars_vec[index + 1].chr)

\* Index<usize>::index: &self.chars_vec[index].chr, Vec indexing panics.
IndexUsize(index) ==
    IF index >= Len(chars_vec) THEN Panic("OutOfRange")
    ELSE Ok(chars_vec[index + 1].chr)

IndexChar == \E i \in Indices : Call("index", <<i>>, IndexUsize(i))

\* create_str_from_range with its two checks in the other order.
create_str_from_range_OrderFirst(start_index, end_index) ==
    IF end_index < start_index THEN Panic("InvalidRangeOrder")
    ELSE IF end_index > chars_length THEN Panic("RangeEndOutOfBounds")
    ELSE IF start_index >= Len(chars_vec) THEN Panic("OutOfRange")
    ELSE LET bytes_start == chars_vec[start_index + 1].offset
         IN  IF chars_length = end_index
             THEN StrSlice(str, bytes_start, str_length)
             ELSE IF end_index >= Len(chars_vec) THEN Panic("OutOfRange")
             ELSE StrSlice(str, bytes_start, chars_vec[end_index + 1].offset)

\* lines 171-187; chars_vec[i] panics when i is not below the Vec's length.
create_str_from_range(start_index, end_index) ==
    IF end_index > chars_length THEN Panic("RangeEndOutOfBounds")
    ELSE IF end_index < start_index THEN Panic("InvalidRangeOrder")
    ELSE IF start_index >= Len(chars_vec) THEN Panic("OutOfRange")
    ELSE LET bytes_start == chars_vec[start_index + 1].offset
         IN  IF chars_length = end_index
             THEN StrSlice(str, bytes_start, str_length)
             ELSE IF end_index >= Len(chars_vec) THEN Panic("OutOfRange")
             ELSE StrSlice(str, bytes_start, chars_vec[end_index + 1].offset)

\* Index<Range<usize>>::index
IndexRange ==
    \E s \in Indices, e \in Indices :
        Call("range", <<s, e>>, create_str_from_range(s, e))

\* Index<RangeFrom<usize>>::index
RangeFromIndex(start) == create_str_from_range(start, chars_length)

IndexRangeFrom == \E s \in Indices : Call("range_from", <<s>>, RangeFromIndex(s))

\* Index<RangeTo<usize>>::index
RangeToIndex(end) == create_str_from_range(0, end)

IndexRangeTo == \E e \in Indices : Call("range_to", <<e>>, RangeToIndex(e))

----------------------------------------------------------------------------
\* Texts of at most MaxLen chars.
Texts == UNION {[1 .. n -> CodePoints] : n \in 0 .. MaxLen}

Init ==
    /\ text \in Texts
    /\ str = EncodeStr(text)
    /\ str_length = 0
    /\ chars_vec = <<>>
    /\ chars_length = 0
    /\ constructed = FALSE
    /\ op = "none"
    /\ args = <<>>
    /\ result = NoResult

Next ==
    \/ New
    \/ AsStr
    \/ LenOp
    \/ Display
    \/ IndexChar
    \/ IndexRange
    \/ IndexRangeFrom
    \/ IndexRangeTo

Spec == Init /\ [][Next]_vars

----------------------------------------------------------------------------
\* Properties.  text is the char sequence the caller wrote; it is what an
\* enumeration of the string's code points that does not go through
\* IndexableStr yields.

\* The encoded width of a code point, taken from its encoding.
EncodedWidth(cp) == Len(EncodeChar(cp))

\* The sum of the encoded widths of the first n chars of cps.
RECURSIVE SumWidths(_, _)
SumWidths(cps, n) ==
    IF n = 0 THEN 0 ELSE SumWidths(cps, n - 1) + EncodedWidth(cps[n])

\* C1: for start <= end <= len(), the range start..end succeeds and the
\* returned slice decodes to the chars start .. end-1 of the text.
C1_RangeIsSubsequence ==
    (op = "range" /\ args[1] <= args[2] /\ args[2] <= chars_length)
        => /\ result.kind = "ok"
           /\ Chars(result.val) = SubSeq(text, args[1] + 1, args[2])

\* C2: for 0 <= k <= len(), the range k..k is the empty slice, not an error.
C2_EmptyRangeIsEmptySlice ==
    (op = "range" /\ args[1] = args[2] /\ args[1] <= chars_length)
        => result = Ok(<<>>)

\* C3: for 0 <= k <= len(), the ranges 0..k and k..len() both succeed and
\* their concatenation is as_str().
C3_SplitRejoin ==
    constructed =>
        \A k \in 0 .. chars_length :
            LET head == create_str_from_range(0, k)
                tail == create_str_from_range(k, chars_length)
            IN  /\ head.kind = "ok"
                /\ tail.kind = "ok"
                /\ head.val \o tail.val = as_str.val

\* C4: a range whose end exceeds the char count panics with the range-end
\* message even when the end is also below the start; otherwise an end below
\* the start panics with the range-order message; neither returns a slice.
C4_ErrorOrder ==
    op = "range" =>
        /\ args[2] > chars_length => result = Panic("RangeEndOutOfBounds")
        /\ (args[2] <= chars_length /\ args[2] < args[1])
               => result = Panic("InvalidRangeOrder")

C4_Witness ==
    /\ op = "range"
    /\ args[2] > chars_length
    /\ args[2] < args[1]
    /\ result.kind = "RangeEndOutOfBounds"

\* C5: the range start.. fails only when start > len(), then with the
\* range-order panic and never the range-end one; for start <= len() it
\* succeeds, and 0.. is as_str() for every text.
C5_RangeFrom ==
    op = "range_from" =>
        /\ args[1] > chars_length => result = Panic("InvalidRangeOrder")
        /\ args[1] <= chars_length => result.kind = "ok"
        /\ args[1] = 0 => result = as_str
        /\ result.kind # "RangeEndOutOfBounds"

\* C6: the range ..end fails exactly when end > len(), with the range-end
\* panic and never the range-order one; for end <= len() it succeeds, and
\* ..len() is as_str() for every text.
C6_RangeTo ==
    op = "range_to" =>
        /\ args[1] > chars_length => result = Panic("RangeEndOutOfBounds")
        /\ args[1] <= chars_length => result.kind = "ok"
        /\ args[1] = chars_length => result = as_str
        /\ result.kind # "InvalidRangeOrder"

\* C7: for 0 <= i < len(), index i yields the i-th char of the text,
\* whatever the byte widths of the chars before it.
C7_IndexIsIthChar ==
    (op = "index" /\ args[1] < Len(text)) => result = Ok(text[args[1] + 1])

C7_Witness ==
    /\ op = "index"
    /\ args[1] >= 1
    /\ args[1] < Len(text)
    /\ EncodedWidth(text[args[1]]) > 1
    /\ result.kind = "ok"

\* C8: index i with i >= len() panics out of range and yields no char.
C8_IndexOutOfRange ==
    (op = "index" /\ args[1] >= Len(text)) => result = Panic("OutOfRange")

C8_Witness ==
    /\ op = "index"
    /\ text = <<>>
    /\ args[1] = 0
    /\ result.kind = "OutOfRange"

\* C9: after construction len() is the number of chars of the text, which is
\* the number of entries of chars_vec, not the number of bytes.
C9_LenIsCharCount ==
    /\ constructed => (chars_length = Len(text) /\ Len(chars_vec) = Len(text))
    /\ op = "len" => result = Ok(Len(text))

C9_Witness ==
    /\ op = "len"
    /\ Len(text) > 0
    /\ Len(str) > Len(text)
    /\ result = Ok(Len(text))

\* C10: after construction the offset of entry i is the sum of the encoded
\* widths of the chars before it; so offsets ascend strictly, the first is 0,
\* each is below the byte length, and the last plus its width is the byte
\* length.
C10_Offsets ==
    constructed =>
        /\ \A i \in 1 .. chars_length :
               /\ chars_vec[i].offset = SumWidths(text, i - 1)
               /\ chars_vec[i].offset < str_length
        /\ \A i \in 1 .. chars_length - 1 :
               chars_vec[i].offset < chars_vec[i + 1].offset
        /\ chars_length > 0 =>
               /\ chars_vec[1].offset = 0
               /\ chars_vec[chars_length].offset
                      + EncodedWidth(text[chars_length]) = str_length

C10_Witness ==
    /\ constructed
    /\ chars_length = MaxLen
    /\ \E i \in 1 .. chars_length : EncodedWidth(text[i]) = 2
    /\ \E i \in 1 .. chars_length : EncodedWidth(text[i]) = 4
    /\ chars_vec[chars_length].offset > chars_length

====
